---- MODULE Spec2Model ----
(***************************************************************************)
(* A model of the to-do manager in src/gptcode1.py: the extraction engine  *)
(* (extract_deadline, extract_priority, parse_task), the persistence layer *)
(* (save_tasks, load_tasks) and the menu loop with its task operations.    *)
(*                                                                         *)
(* A Python str is a sequence of one-character strings, so that lower(),   *)
(* strip(), the substring test `in` and regex search are computed on the   *)
(* characters.  A Python/JSON value is a record [t, s, kv]: t is its type   *)
(* ("str", "num", "null", "list", "dict"), s its text (a str's characters,  *)
(* a number's literal) and kv its members (a list's items, a dict's         *)
(* key/value pairs in order).  The backing file is a sequence of JSON       *)
(* tokens (the file may also not exist).                                   *)
(***************************************************************************)
EXTENDS Integers, Sequences

VARIABLES
    pc,     \* where the process is: "start", "menu", "exited", "crashed"
    tasks,  \* the in-memory list of Task
    file,   \* the backing file tasks.json
    op,     \* the last menu choice
    inp,    \* the line the user supplies to the operation's prompt
    out     \* the last message printed, or the exception that ended the process

vars == <<pc, tasks, file, op, inp, out>>

\* ---------------------------------------------------------------- bounds

\* The store holds at most MaxTasks records (add is disabled beyond it).
MaxTasks == 2

\* An extraction input is the concatenation of at most MaxFrags fragments.
MaxFrags == 3

\* A round-trip input is a sequence of at most MaxRecords records.
MaxRecords == 2

\* A list in the file at startup holds at most MaxItems elements.
MaxItems == 2

\* ------------------------------------------------------- Python strings

Min(S) == CHOOSE x \in S : \A y \in S : x <= y

Max(S) == CHOOSE x \in S : \A y \in S : x >= y

UpperCase == {"A","B","C","D","E","F","G","H","I","J","K","L","M",
              "N","O","P","Q","R","S","T","U","V","W","X","Y","Z"}

LowerOf == [c \in UpperCase |->
              CASE c = "A" -> "a" [] c = "B" -> "b" [] c = "C" -> "c" [] c = "D" -> "d"
                [] c = "E" -> "e" [] c = "F" -> "f" [] c = "G" -> "g" [] c = "H" -> "h"
                [] c = "I" -> "i" [] c = "J" -> "j" [] c = "K" -> "k" [] c = "L" -> "l"
                [] c = "M" -> "m" [] c = "N" -> "n" [] c = "O" -> "o" [] c = "P" -> "p"
                [] c = "Q" -> "q" [] c = "R" -> "r" [] c = "S" -> "s" [] c = "T" -> "t"
                [] c = "U" -> "u" [] c = "V" -> "v" [] c = "W" -> "w" [] c = "X" -> "x"
                [] c = "Y" -> "y" [] c = "Z" -> "z"]

\* str.lower()
lower(s) == [i \in 1..Len(s) |-> IF s[i] \in UpperCase THEN LowerOf[s[i]] ELSE s[i]]

\* str.upper() exists on a str only: view_tasks calls it on the priority
HasUpper(v) == v.t = "str"

Whitespace == {" ", "\t", "\n"}

Digits == {"0","1","2","3","4","5","6","7","8","9"}

\* str.strip()
strip(s) ==
    LET keep == {i \in 1..Len(s) : s[i] \notin Whitespace}
    IN  IF keep = {} THEN <<>> ELSE SubSeq(s, Min(keep), Max(keep))

\* p occurs in s starting at index i
IsSubAt(p, s, i) ==
    /\ i >= 1
    /\ i + Len(p) - 1 <= Len(s)
    /\ \A k \in 1..Len(p) : s[i + k - 1] = p[k]

\* the substring test `p in s` on two strs
Contains(p, s) == \E i \in 1..(Len(s) - Len(p) + 1) : IsSubAt(p, s, i)

\* ------------------------------------------------------------ NLP rules

HIGH_KEYWORDS ==
    << <<"u","r","g","e","n","t">>, <<"i","m","p","o","r","t","a","n","t">>, <<"a","s","a","p">>, <<"i","m","m","e","d","i","a","t","e","l","y">>, <<"c","r","i","t","i","c","a","l">>, <<"t","o","d","a","y">> >>

MEDIUM_KEYWORDS == << <<"s","o","o","n">>, <<"t","h","i","s"," ","w","e","e","k">>, <<"n","e","x","t"," ","f","e","w"," ","d","a","y","s">> >>

LOW_PRIORITY_PHRASES ==
    << <<"n","o","t"," ","u","r","g","e","n","t">>, <<"n","o"," ","u","r","g","e","n","c","y">>, <<"l","o","w"," ","p","r","i","o","r","i","t","y">>, <<"n","o","t"," ","i","m","p","o","r","t","a","n","t">> >>

WEEKDAYS ==
    << <<"m","o","n","d","a","y">>, <<"t","u","e","s","d","a","y">>, <<"w","e","d","n","e","s","d","a","y">>, <<"t","h","u","r","s","d","a","y">>, <<"f","r","i","d","a","y">>,
       <<"s","a","t","u","r","d","a","y">>, <<"s","u","n","d","a","y">> >>

\* A pattern is: the literal pre; when num, one or more digits and the literal
\* mid; then the first of the alternatives alts, in order, that matches.
Literal(s) == [pre |-> s, num |-> FALSE, mid |-> <<>>, alts |-> << <<>> >>]

DEADLINE_PATTERNS ==
    << Literal(<<"t","o","d","a","y">>),
       Literal(<<"t","o","m","o","r","r","o","w">>),
       [pre |-> <<"w","i","t","h","i","n"," ">>, num |-> TRUE, mid |-> <<" ">>,
        alts |-> << <<"d","a","y">>, <<"d","a","y","s">>, <<"w","e","e","k">>, <<"w","e","e","k","s">>, <<"m","o","n","t","h">>, <<"m","o","n","t","h","s">> >>],
       [pre |-> <<"b","y"," ">>, num |-> FALSE, mid |-> <<>>, alts |-> WEEKDAYS],
       [pre |-> <<"t","h","i","s"," ">>, num |-> FALSE, mid |-> <<>>, alts |-> WEEKDAYS],
       [pre |-> <<"n","e","x","t"," ">>, num |-> FALSE, mid |-> <<>>, alts |-> WEEKDAYS],
       [pre |-> <<"n","e","x","t"," ">>, num |-> FALSE, mid |-> <<>>, alts |-> << <<"w","e","e","k">>, <<"m","o","n","t","h">> >>] >>

\* the length of the run of digits of s that starts at index j (\d+ is greedy)
DigitRun(s, j) ==
    Max({n \in 0..(Len(s) - j + 1) : \A k \in 0..(n - 1) : s[j + k] \in Digits})

\* Where the match of pat that starts at index i of s ends (the index after its
\* last character), or 0 when pat does not match at i.  An alternation takes its
\* first alternative that matches, and nothing follows it in these patterns.
MatchEnd(pat, s, i) ==
    IF ~IsSubAt(pat.pre, s, i) THEN 0
    ELSE LET j == i + Len(pat.pre)
             d == IF pat.num THEN DigitRun(s, j) ELSE 0
             a == j + d + Len(pat.mid)
             hits == {n \in DOMAIN pat.alts : IsSubAt(pat.alts[n], s, a)}
         IN  IF (pat.num /\ d = 0) \/ ~IsSubAt(pat.mid, s, j + d) \/ hits = {}
             THEN 0
             ELSE a + Len(pat.alts[Min(hits)])

\* The indexes of s at which pat matches.
MatchStarts(pat, s) == {i \in 1..Len(s) : MatchEnd(pat, s, i) # 0}

\* regex.search(text) and m.group(): the leftmost match, or NoMatch.
NoMatch == << "" >>

Search(pat, s) ==
    LET starts == MatchStarts(pat, s)
    IN  IF starts = {} THEN NoMatch
        ELSE SubSeq(s, Min(starts), MatchEnd(pat, s, Min(starts)) - 1)

\* --------------------------------------------------------------- parsing

\* A variant of extract_deadline that returns the match that starts earliest in
\* the text, whichever pattern made it.
extract_deadline_by_position(text) ==
    LET t == lower(text)
        found == {k \in DOMAIN DEADLINE_PATTERNS : Search(DEADLINE_PATTERNS[k], t) # NoMatch}
        first(k) == Min(MatchStarts(DEADLINE_PATTERNS[k], t))
    IN  IF found = {} THEN <<"u","n","s","p","e","c","i","f","i","e","d">>
        ELSE Search(DEADLINE_PATTERNS[CHOOSE k \in found :
                        \A j \in found : first(k) < first(j) \/ (first(k) = first(j) /\ k <= j)], t)

RECURSIVE DeadlineFrom(_, _)
\* the loop of extract_deadline from the k-th regex on, on the lowercased text
DeadlineFrom(text, k) ==
    IF k > Len(DEADLINE_PATTERNS) THEN <<"u","n","s","p","e","c","i","f","i","e","d">>
    ELSE LET m == Search(DEADLINE_PATTERNS[k], text)
         IN  IF m # NoMatch THEN m ELSE DeadlineFrom(text, k + 1)

extract_deadline(text) == DeadlineFrom(lower(text), 1)

\* A variant of extract_priority that tests the high keywords before the
\* low-priority phrases.
extract_priority_high_first(text) ==
    LET t == lower(text)
    IN  IF \E i \in DOMAIN HIGH_KEYWORDS : Contains(HIGH_KEYWORDS[i], t)
        THEN <<"h","i","g","h">>
        ELSE IF \E i \in DOMAIN LOW_PRIORITY_PHRASES : Contains(LOW_PRIORITY_PHRASES[i], t)
             THEN <<"l","o","w">>
             ELSE <<"m","e","d","i","u","m">>

extract_priority(text) ==
    LET t == lower(text)
    IN  IF \E i \in DOMAIN LOW_PRIORITY_PHRASES : Contains(LOW_PRIORITY_PHRASES[i], t)
        THEN <<"l","o","w">>
        ELSE IF \E i \in DOMAIN HIGH_KEYWORDS : Contains(HIGH_KEYWORDS[i], t)
             THEN <<"h","i","g","h">>
             ELSE IF \E i \in DOMAIN MEDIUM_KEYWORDS : Contains(MEDIUM_KEYWORDS[i], t)
                  THEN <<"m","e","d","i","u","m">>
                  ELSE <<"m","e","d","i","u","m">>

\* ------------------------------------------------------------ data model

\* a Python str as a value
Str(s) == [t |-> "str", s |-> s, kv |-> <<>>]

\* the dataclass Task
Task(raw_text, deadline, priority) ==
    [raw_text |-> raw_text, deadline |-> deadline, priority |-> priority]

parse_task(user_input) ==
    Task(Str(strip(user_input)),
         Str(extract_deadline(user_input)),
         Str(extract_priority(user_input)))

\* ------------------------------------------------------------ JSON values

Null == [t |-> "null", s |-> <<"n","u","l","l">>, kv |-> <<>>]

Num(lit) == [t |-> "num", s |-> lit, kv |-> <<>>]

\* a list of values; its items are the v of its members
List(items) ==
    [t |-> "list", s |-> <<>>, kv |-> [i \in 1..Len(items) |-> [k |-> <<>>, v |-> items[i]]]]

\* a dict of key/value pairs <<key, value>>, in insertion order
Dict(pairs) ==
    [t |-> "dict", s |-> <<>>,
     kv |-> [i \in 1..Len(pairs) |-> [k |-> pairs[i][1], v |-> pairs[i][2]]]]

Keys(d) == {d.kv[i].k : i \in DOMAIN d.kv}

\* d[key] for a key of the dict d
Get(d, key) == d.kv[CHOOSE i \in DOMAIN d.kv : d.kv[i].k = key].v

\* d.get(key, default)
GetOr(d, key, default) == IF key \in Keys(d) THEN Get(d, key) ELSE default

K_raw_text == <<"r","a","w","_","t","e","x","t">>

K_deadline == <<"d","e","a","d","l","i","n","e">>

K_priority == <<"p","r","i","o","r","i","t","y">>

K_description == <<"d","e","s","c","r","i","p","t","i","o","n">>

\* --------------------------------------------------- the file's contents
\* A document is a sequence of tokens [t, s]: the punctuation of JSON, a
\* string, number or null literal, a byte that is not valid UTF-8 ("bad"), or
\* text that is no JSON token ("junk").

Tok(t) == [t |-> t, s |-> <<>>]

NoFile == [exists |-> FALSE, toks |-> <<>>]

FileOf(toks) == [exists |-> TRUE, toks |-> toks]

RECURSIVE DumpValue(_)
RECURSIVE DumpMembers(_, _, _)
RECURSIVE DumpMembersNoComma(_, _, _)
\* A variant of DumpMembers that writes no separator between members.
DumpMembersNoComma(kv, i, isDict) ==
    IF i > Len(kv) THEN <<>>
    ELSE (IF isDict THEN <<[t |-> "str", s |-> kv[i].k], Tok(":")>> ELSE <<>>)
         \o DumpValue(kv[i].v)
         \o DumpMembersNoComma(kv, i + 1, isDict)

\* the members of a list or dict from the i-th on, comma-separated
DumpMembers(kv, i, isDict) ==
    IF i > Len(kv) THEN <<>>
    ELSE (IF i > 1 THEN <<Tok(",")>> ELSE <<>>)
         \o (IF isDict THEN <<[t |-> "str", s |-> kv[i].k], Tok(":")>> ELSE <<>>)
         \o DumpValue(kv[i].v)
         \o DumpMembers(kv, i + 1, isDict)

\* json.dump of a value, as tokens
DumpValue(v) ==
    CASE v.t = "list" -> <<Tok("[")>> \o DumpMembers(v.kv, 1, FALSE) \o <<Tok("]")>>
      [] v.t = "dict" -> <<Tok("{")>> \o DumpMembers(v.kv, 1, TRUE) \o <<Tok("}")>>
      [] OTHER -> <<[t |-> v.t, s |-> v.s]>>

\* task.__dict__: the three fields by name, in declaration order
TaskDict(task) ==
    Dict(<< <<K_raw_text, task.raw_text>>,
            <<K_deadline, task.deadline>>,
            <<K_priority, task.priority>> >>)

\* A variant of save_tasks that writes the list as it was before the last append.
save_tasks_stale(ts) ==
    FileOf(DumpValue(List([i \in 1..(Len(ts) - 1) |-> TaskDict(ts[i])])))

\* What save_tasks leaves in the file when it completes.
save_tasks(ts) == FileOf(DumpValue(List([i \in 1..Len(ts) |-> TaskDict(ts[i])])))

ParseFail == [ok |-> FALSE, val |-> Null, next |-> 0]

\* the dict's pairs with key set to value (a repeated key keeps its place)
Put(kv, key, value) ==
    IF \E i \in DOMAIN kv : kv[i].k = key
    THEN [i \in DOMAIN kv |-> IF kv[i].k = key THEN [k |-> key, v |-> value] ELSE kv[i]]
    ELSE Append(kv, [k |-> key, v |-> value])

RECURSIVE ParseValue(_, _)
RECURSIVE ParseItems(_, _, _)
RECURSIVE ParsePairs(_, _, _)
\* the items of a list after "[" or ",", up to its "]"
ParseItems(toks, i, acc) ==
    LET r == ParseValue(toks, i)
    IN  IF ~r.ok \/ r.next > Len(toks) THEN ParseFail
        ELSE IF toks[r.next].t = ","
             THEN ParseItems(toks, r.next + 1, Append(acc, [k |-> <<>>, v |-> r.val]))
             ELSE IF toks[r.next].t = "]"
                  THEN [ok |-> TRUE,
                        val |-> [t |-> "list", s |-> <<>>,
                                 kv |-> Append(acc, [k |-> <<>>, v |-> r.val])],
                        next |-> r.next + 1]
                  ELSE ParseFail

\* the pairs of a dict after "{" or ",", up to its "}"
ParsePairs(toks, i, acc) ==
    IF i + 1 > Len(toks) \/ toks[i].t # "str" \/ toks[i + 1].t # ":" THEN ParseFail
    ELSE LET r == ParseValue(toks, i + 2)
         IN  IF ~r.ok \/ r.next > Len(toks) THEN ParseFail
             ELSE IF toks[r.next].t = ","
                  THEN ParsePairs(toks, r.next + 1, Put(acc, toks[i].s, r.val))
                  ELSE IF toks[r.next].t = "}"
                       THEN [ok |-> TRUE,
                             val |-> [t |-> "dict", s |-> <<>>,
                                      kv |-> Put(acc, toks[i].s, r.val)],
                             next |-> r.next + 1]
                       ELSE ParseFail

\* the JSON value that starts at token i
ParseValue(toks, i) ==
    IF i > Len(toks) THEN ParseFail
    ELSE CASE toks[i].t \in {"str", "num", "null"} ->
                [ok |-> TRUE, val |-> [t |-> toks[i].t, s |-> toks[i].s, kv |-> <<>>],
                 next |-> i + 1]
           [] toks[i].t = "[" ->
                IF i + 1 <= Len(toks) /\ toks[i + 1].t = "]"
                THEN [ok |-> TRUE, val |-> List(<<>>), next |-> i + 2]
                ELSE ParseItems(toks, i + 1, <<>>)
           [] toks[i].t = "{" ->
                IF i + 1 <= Len(toks) /\ toks[i + 1].t = "}"
                THEN [ok |-> TRUE, val |-> Dict(<<>>), next |-> i + 2]
                ELSE ParsePairs(toks, i + 1, <<>>)
           [] OTHER -> ParseFail

\* open(..., encoding="utf-8") and json.load(f): the text is decoded first
\* (UnicodeDecodeError on a byte that is not UTF-8), then parsed as one
\* document with nothing after it (JSONDecodeError otherwise).
json_load(toks) ==
    IF \E i \in DOMAIN toks : toks[i].t = "bad"
    THEN [exc |-> "UnicodeDecodeError", val |-> Null]
    ELSE LET r == ParseValue(toks, 1)
         IN  IF r.ok /\ r.next = Len(toks) + 1
             THEN [exc |-> "none", val |-> r.val]
             ELSE [exc |-> "JSONDecodeError", val |-> Null]

\* ------------------------------------------------------------- load_tasks

\* what `for item in data` iterates over, or TypeError
Iterable(data) == data.t \in {"list", "dict", "str"}

Items(data) ==
    CASE data.t = "list" -> [i \in DOMAIN data.kv |-> data.kv[i].v]
      [] data.t = "dict" -> [i \in DOMAIN data.kv |-> Str(data.kv[i].k)]
      [] OTHER -> [i \in DOMAIN data.s |-> Str(<<data.s[i]>>)]

\* `key in item` for a str, dict or list item (TypeError for any other)
In(key, item) ==
    CASE item.t = "str" -> Contains(key, item.s)
      [] item.t = "dict" -> key \in Keys(item)
      [] OTHER -> \E i \in DOMAIN item.kv : item.kv[i].v = Str(key)

\* A variant of LoadItem that raises KeyError on a record of neither schema.
LoadItemStrict(item) ==
    IF item.t \notin {"str", "dict", "list"}
    THEN [exc |-> "TypeError", add |-> <<>>]
    ELSE IF In(K_raw_text, item)
         THEN IF item.t = "dict" /\ Keys(item) = {K_raw_text, K_deadline, K_priority}
              THEN [exc |-> "none",
                    add |-> <<Task(Get(item, K_raw_text), Get(item, K_deadline),
                                   Get(item, K_priority))>>]
              ELSE [exc |-> "TypeError", add |-> <<>>]
         ELSE IF In(K_description, item) /\ item.t = "dict"
              THEN [exc |-> "none",
                    add |-> <<Task(Get(item, K_description),
                                   GetOr(item, K_deadline, Str(<<"u","n","s","p","e","c","i","f","i","e","d">>)),
                                   GetOr(item, K_priority, Str(<<"m","e","d","i","u","m">>)))>>]
              ELSE IF In(K_description, item) THEN [exc |-> "TypeError", add |-> <<>>]
                   ELSE [exc |-> "KeyError", add |-> <<>>]

\* One pass of the loop body: the tasks it appends (none or one), or the
\* exception it raises.  Task(**item) needs a mapping with exactly the three
\* field names; item["description"] needs a dict.
LoadItem(item) ==
    IF item.t \notin {"str", "dict", "list"}
    THEN [exc |-> "TypeError", add |-> <<>>]
    ELSE IF In(K_raw_text, item)
         THEN IF item.t = "dict" /\ Keys(item) = {K_raw_text, K_deadline, K_priority}
              THEN [exc |-> "none",
                    add |-> <<Task(Get(item, K_raw_text), Get(item, K_deadline),
                                   Get(item, K_priority))>>]
              ELSE [exc |-> "TypeError", add |-> <<>>]
         ELSE IF In(K_description, item)
              THEN IF item.t = "dict"
                   THEN [exc |-> "none",
                         add |-> <<Task(Get(item, K_description),
                                        GetOr(item, K_deadline, Str(<<"u","n","s","p","e","c","i","f","i","e","d">>)),
                                        GetOr(item, K_priority, Str(<<"m","e","d","i","u","m">>)))>>]
                   ELSE [exc |-> "TypeError", add |-> <<>>]
              ELSE [exc |-> "none", add |-> <<>>]

RECURSIVE LoadItems(_, _, _)
\* the loop over the items from the i-th on, with the tasks built so far
LoadItems(items, i, acc) ==
    IF i > Len(items) THEN [exc |-> "none", tasks |-> acc]
    ELSE LET r == LoadItem(items[i])
         IN  IF r.exc # "none" THEN [exc |-> r.exc, tasks |-> <<>>]
             ELSE LoadItems(items, i + 1, acc \o r.add)

\* the exceptions the except clause of load_tasks names
Caught == {"JSONDecodeError", "TypeError", "KeyError"}

\* load_tasks(): the sequence it returns, or the exception it lets through
load_tasks(f) ==
    IF ~f.exists THEN [exc |-> "none", tasks |-> <<>>]
    ELSE LET d == json_load(f.toks)
             r == IF d.exc # "none" THEN [exc |-> d.exc, tasks |-> <<>>]
                  ELSE IF ~Iterable(d.val) THEN [exc |-> "TypeError", tasks |-> <<>>]
                       ELSE LoadItems(Items(d.val), 1, <<>>)
         IN  IF r.exc \in Caught THEN [exc |-> "none", tasks |-> <<>>] ELSE r

\* --------------------------------------------------------------- task ops

DigitVal(c) ==
    CASE c = "0" -> 0 [] c = "1" -> 1 [] c = "2" -> 2 [] c = "3" -> 3 [] c = "4" -> 4
      [] c = "5" -> 5 [] c = "6" -> 6 [] c = "7" -> 7 [] c = "8" -> 8 [] c = "9" -> 9

RECURSIVE DecimalValue(_, _, _)
\* the value of the digits of s from index i on, skipping "_"
DecimalValue(s, i, acc) ==
    IF i > Len(s) THEN acc
    ELSE IF s[i] = "_" THEN DecimalValue(s, i + 1, acc)
         ELSE DecimalValue(s, i + 1, 10 * acc + DigitVal(s[i]))

\* int(line): surrounding whitespace, an optional sign, digits with single
\* "_" between them; anything else raises ValueError (ok = FALSE).
int(line) ==
    LET s == strip(line)
        signed == Len(s) > 0 /\ s[1] \in {"+", "-"}
        body == IF signed THEN SubSeq(s, 2, Len(s)) ELSE s
        wellFormed ==
            /\ Len(body) > 0
            /\ \A i \in 1..Len(body) : body[i] \in Digits \cup {"_"}
            /\ body[1] # "_" /\ body[Len(body)] # "_"
            /\ \A i \in 1..(Len(body) - 1) : ~(body[i] = "_" /\ body[i + 1] = "_")
    IN  IF ~wellFormed THEN [ok |-> FALSE, n |-> 0]
        ELSE [ok |-> TRUE,
              n |-> IF signed /\ s[1] = "-" THEN 0 - DecimalValue(body, 1, 0)
                    ELSE DecimalValue(body, 1, 0)]

\* A variant of pop that removes the last element, whatever the index.
pop_last(ts, idx) == SubSeq(ts, 1, Len(ts) - 1)

\* tasks.pop(idx - 1)
pop(ts, idx) == SubSeq(ts, 1, idx - 1) \o SubSeq(ts, idx + 1, Len(ts))

\* What view_tasks prints, or the AttributeError of t.priority.upper() on a
\* priority that is not a str.
view_tasks(ts) ==
    IF ts = <<>> THEN "No tasks."
    ELSE IF \E i \in DOMAIN ts : ~HasUpper(ts[i].priority) THEN "AttributeError"
         ELSE "TASKS"

\* the list focus_mode shows
high(ts) == SelectSeq(ts, LAMBDA t : t.priority = Str(<<"h","i","g","h">>))

\* How open(DATA_FILE, "w") and json.dump can end: the whole document is in
\* the file (ok); open failed and the file is as it was; or the file was
\* truncated by open and the write failed, or the process was stopped, after k
\* tokens reached it.  save_tasks catches nothing, so a failure ends the process.
WriteOutcomes(old, new) ==
    {[ok |-> TRUE, file |-> new], [ok |-> FALSE, file |-> old]}
    \cup {[ok |-> FALSE, file |-> FileOf(SubSeq(new.toks, 1, k))] : k \in 0..Len(new.toks)}

\* ------------------------------------------------------------- main loop

AddTexts == { <<>>, <<" "," ">>, <<" ","u","r","g","e","n","t"," ","t","o","d","a","y"," ">>, <<"N","o","t"," ","u","r","g","e","n","t",","," ","b","y"," ","F","r","i","d","a","y">> }

DigitChar(n) ==
    CASE n = 0 -> "0" [] n = 1 -> "1" [] n = 2 -> "2" [] n = 3 -> "3" [] n = 4 -> "4"
      [] n = 5 -> "5" [] n = 6 -> "6" [] n = 7 -> "7" [] n = 8 -> "8" [] OTHER -> "9"

DeleteLines ==
    {<<DigitChar(n)>> : n \in 0..(MaxTasks + 1)}
    \cup { <<"-","1">>, <<" ","2"," ">>, <<"a","b","c">>, <<>> }

\* main(): tasks = load_tasks()
Start ==
    /\ pc = "start"
    /\ LET r == load_tasks(file)
       IN  IF r.exc = "none"
           THEN /\ pc' = "menu"
                /\ tasks' = r.tasks
                /\ out' = "menu"
           ELSE /\ pc' = "crashed"
                /\ tasks' = <<>>
                /\ out' = r.exc
    /\ UNCHANGED <<file, op, inp>>

\* choice "1": add_task(tasks)
AddTask ==
    /\ pc = "menu"
    /\ \E line \in AddTexts :
        LET text == strip(line)
        IN  /\ op' = "1"
            /\ inp' = line
            /\ IF text = <<>>
               THEN /\ out' = "Task cannot be empty."
                    /\ UNCHANGED <<pc, tasks, file>>
               ELSE /\ Len(tasks) < MaxTasks
                    /\ tasks' = Append(tasks, parse_task(text))
                    /\ \E w \in WriteOutcomes(file, save_tasks(tasks')) :
                        /\ file' = w.file
                        /\ pc' = IF w.ok THEN "menu" ELSE "crashed"
                        /\ out' = IF w.ok THEN "Task added." ELSE "OSError"

\* choice "2": view_tasks(tasks)
ViewTasks ==
    /\ pc = "menu"
    /\ op' = "2"
    /\ inp' = <<>>
    /\ out' = view_tasks(tasks)
    /\ pc' = IF view_tasks(tasks) = "AttributeError" THEN "crashed" ELSE "menu"
    /\ UNCHANGED <<tasks, file>>

\* choice "3": delete_task(tasks).  The line is what the user has ready for the
\* prompt; the code reads it only when the store is not empty and view_tasks
\* has returned.
DeleteTask ==
    /\ pc = "menu"
    /\ \E line \in DeleteLines :
        /\ op' = "3"
        /\ inp' = line
        /\ IF tasks = <<>>
           THEN /\ out' = "No tasks to delete."
                /\ UNCHANGED <<pc, tasks, file>>
           ELSE IF view_tasks(tasks) = "AttributeError"
           THEN /\ out' = "AttributeError"
                /\ pc' = "crashed"
                /\ UNCHANGED <<tasks, file>>
           ELSE IF ~int(line).ok
           THEN /\ out' = "Enter a number."
                /\ UNCHANGED <<pc, tasks, file>>
           ELSE IF 1 <= int(line).n /\ int(line).n <= Len(tasks)
           THEN /\ tasks' = pop(tasks, int(line).n)
                /\ \E w \in WriteOutcomes(file, save_tasks(tasks')) :
                    /\ file' = w.file
                    /\ pc' = IF w.ok THEN "menu" ELSE "crashed"
                    /\ out' = IF w.ok THEN "Deleted" ELSE "OSError"
           ELSE /\ out' = "Invalid number."
                /\ UNCHANGED <<pc, tasks, file>>

\* choice "4": focus_mode(tasks)
FocusMode ==
    /\ pc = "menu"
    /\ op' = "4"
    /\ inp' = <<>>
    /\ out' = IF high(tasks) = <<>> THEN "No high-priority tasks." ELSE "FOCUS MODE"
    /\ UNCHANGED <<pc, tasks, file>>

\* choice "5": break
Exit ==
    /\ pc = "menu"
    /\ op' = "5"
    /\ inp' = <<>>
    /\ out' = "Exiting."
    /\ pc' = "exited"
    /\ UNCHANGED <<tasks, file>>

\* any other choice
InvalidChoice ==
    /\ pc = "menu"
    /\ op' = "other"
    /\ inp' = <<>>
    /\ out' = "Invalid choice."
    /\ UNCHANGED <<pc, tasks, file>>

\* The program is run again on the file the last run left.
Restart ==
    /\ pc \in {"exited", "crashed"}
    /\ pc' = "start"
    /\ tasks' = <<>>
    /\ op' = ""
    /\ inp' = <<>>
    /\ out' = ""
    /\ UNCHANGED file

\* ---------------------------------------------------- the files at startup

R_current == Task(Str(<<"a">>), Str(<<"u","n","s","p","e","c","i","f","i","e","d">>), Str(<<"h","i","g","h">>))

R_banana == Task(Str(<<"b">>), Str(<<"t","o","d","a","y">>), Str(<<"b","a","n","a","n","a">>))

R_null == Task(Str(<<"c">>), Str(<<"u","n","s","p","e","c","i","f","i","e","d">>), Null)

E_legacy == Dict(<< <<K_description, Str(<<"x">>)>>, <<K_priority, Str(<<"h","i","g","h">>)>> >>)

E_legacy_min == Dict(<< <<K_description, Str(<<"y">>)>> >>)

E_legacy_full ==
    Dict(<< <<K_description, Str(<<"z">>)>>, <<K_deadline, Str(<<"t","o","m","o","r","r","o","w">>)>>,
            <<K_priority, Str(<<"l","o","w">>)>> >>)

E_neither == Dict(<< <<<<"i","d">>, Num(<<"7">>)>> >>)

E_partial == Dict(<< <<K_raw_text, Str(<<"a">>)>> >>)

E_extra ==
    Dict(<< <<K_raw_text, Str(<<"a">>)>>, <<K_deadline, Str(<<"t","o","d","a","y">>)>>,
            <<K_priority, Str(<<"l","o","w">>)>>, <<<<"i","d">>, Num(<<"7">>)>> >>)

\* JSON objects
RecordElems ==
    { TaskDict(R_current), TaskDict(R_banana), TaskDict(R_null),
      E_legacy, E_legacy_min, E_legacy_full, E_neither, E_partial, E_extra }

\* JSON values that are not objects
OtherElems ==
    { Str(<<"a","b","c">>), Str(<<"m","y"," ","r","a","w","_","t","e","x","t">>), Num(<<"5">>), Null,
      List(<<Str(K_description)>>) }

\* the documents json.dump writes for lists of at most n of the elements
ListDocs(elems, n) ==
    {DumpValue(List(items)) :
        items \in UNION {[1..k -> elems] : k \in 0..n}}

\* a document whose top level is not a list
TopLevelDocs ==
    {DumpValue(v) : v \in {E_partial, E_neither, E_legacy_min, Num(<<"5">>), Null,
                           Str(<<"a","b","c">>)}}

\* no document at all, a byte that is not UTF-8, a document cut short, and
\* a document followed by more text
BrokenDocs ==
    LET doc == DumpValue(List(<<TaskDict(R_current)>>))
    IN  {SubSeq(doc, 1, k) : k \in 0..(Len(doc) - 1)}
        \cup {<<Tok("bad")>>, doc \o <<Tok("bad")>>, doc \o <<Tok("junk")>>,
              doc \o doc}

\* The files load_tasks is applied to.
LoadFiles ==
    {NoFile}
    \cup {FileOf(d) : d \in ListDocs(RecordElems \cup OtherElems, MaxItems)}
    \cup {FileOf(d) : d \in TopLevelDocs \cup BrokenDocs}

\* The files the program is started on.
InitFiles ==
    {NoFile}
    \cup {FileOf(d) : d \in ListDocs({TaskDict(R_banana), TaskDict(R_null), E_legacy},
                                     MaxItems)}
    \cup {FileOf(<<>>), FileOf(<<Tok("bad")>>), FileOf(<<Tok("[")>>)}

Init ==
    /\ pc = "start"
    /\ tasks = <<>>
    /\ file \in InitFiles
    /\ op = ""
    /\ inp = <<>>
    /\ out = ""

Next ==
    \/ Start
    \/ AddTask
    \/ ViewTasks
    \/ DeleteTask
    \/ FocusMode
    \/ Exit
    \/ InvalidChoice
    \/ Restart

Spec == Init /\ [][Next]_vars

\* ------------------------------------------------------ load_tasks alone
\* The startup load applied to each file of LoadFiles.

InitLoad ==
    /\ pc = "start"
    /\ tasks = <<>>
    /\ file \in LoadFiles
    /\ op = ""
    /\ inp = <<>>
    /\ out = ""

NextLoad == Start

SpecLoad == InitLoad /\ [][NextLoad]_vars

\* ------------------------------------------------- save_tasks, load_tasks
\* save_tasks(T) and then load_tasks(), for sequences T of records whose
\* fields are strs; the result of load_tasks is left in out.

StoreTexts == { <<"a">>, K_description }

StoreDeadlines == { <<"u","n","s","p","e","c","i","f","i","e","d">>, <<"b","y"," ","f","r","i","d","a","y">> }

StorePriorities == { <<"l","o","w">>, <<"b","a","n","a","n","a">> }

StoreRecords ==
    {Task(Str(r), Str(d), Str(p)) :
        r \in StoreTexts, d \in StoreDeadlines, p \in StorePriorities}

InitStore ==
    /\ pc = "unsaved"
    /\ tasks \in UNION {[1..k -> StoreRecords] : k \in 0..MaxRecords}
    /\ file \in {NoFile, FileOf(<<Tok("junk")>>)}
    /\ op = ""
    /\ inp = <<>>
    /\ out = [exc |-> "none", tasks |-> <<>>]

SaveTasks ==
    /\ pc = "unsaved"
    /\ pc' = "saved"
    /\ file' = save_tasks(tasks)
    /\ UNCHANGED <<tasks, op, inp, out>>

LoadTasks ==
    /\ pc = "saved"
    /\ pc' = "loaded"
    /\ out' = load_tasks(file)
    /\ UNCHANGED <<tasks, file, op, inp>>

NextStore == SaveTasks \/ LoadTasks

SpecStore == InitStore /\ [][NextStore]_vars

\* ----------------------------------------------- the extraction functions
\* The pure functions applied to a text: Init draws the text, each action
\* applies one function and leaves its result in out (parse_task in tasks).

RECURSIVE TextsUpTo(_, _)
TextsUpTo(frags, n) ==
    IF n = 0 THEN {<<>>}
    ELSE LET shorter == TextsUpTo(frags, n - 1)
         IN  shorter \cup {t \o f : t \in shorter, f \in frags}

DeadlineFrags ==
    { <<"t","o","d","a","y">>, <<"T","o","m","o","r","r","o","w"," ","o","r"," ">>, <<"w","i","t","h","i","n"," ">>, <<"3">>, <<" ","d","a","y","s">>,
      <<"b","y"," ">>, <<"t","h","i","s"," ">>, <<"n","e","x","t"," ">>, <<"f","r","i","d","a","y">>, <<"m","o","n","t","h">> }

PriorityFrags ==
    { <<"u","r","g","e","n","t">>, <<"n","o","t"," ">>, <<"i","m","p","o","r","t","a","n","t">>, <<"A","S","A","P">>, <<"t","h","i","s"," ","w","e","e","k">>,
      <<"l","o","w"," ","p","r","i","o","r","i","t","y">>, <<" ","x"," ">> }

ExtractTexts == TextsUpTo(DeadlineFrags, MaxFrags) \cup TextsUpTo(PriorityFrags, MaxFrags)

InitExtract ==
    /\ pc = "text"
    /\ inp \in ExtractTexts
    /\ tasks = <<>>
    /\ file = NoFile
    /\ op = ""
    /\ out = <<>>

ExtractDeadline ==
    /\ pc = "text"
    /\ pc' = "deadline"
    /\ out' = extract_deadline(inp)
    /\ UNCHANGED <<tasks, file, op, inp>>

ExtractPriority ==
    /\ pc = "text"
    /\ pc' = "priority"
    /\ out' = extract_priority(inp)
    /\ UNCHANGED <<tasks, file, op, inp>>

ParseTask ==
    /\ pc = "text"
    /\ pc' = "parsed"
    /\ tasks' = <<parse_task(inp)>>
    /\ UNCHANGED <<file, op, inp, out>>

NextExtract == ExtractDeadline \/ ExtractPriority \/ ParseTask

SpecExtract == InitExtract /\ [][NextExtract]_vars

\* ================================================================ claims

\* ---- C1 (under SpecLoad)
\* the parsed document of an existing file, when it decodes and parses
Parsed(f) == json_load(f.toks).val

Decodes(f) == json_load(f.toks).exc = "none"

\* the elements of a document that is a list
Elems(f) == [i \in DOMAIN Parsed(f).kv |-> Parsed(f).kv[i].v]

\* The file exists and is malformed: its bytes are not UTF-8, it is not one JSON
\* document, its top level is not a list, an element is not a record, or a
\* record that has raw_text lacks deadline or priority.
Malformed(f) ==
    /\ f.exists
    /\ \/ ~Decodes(f)
       \/ Parsed(f).t # "list"
       \/ \E i \in DOMAIN Elems(f) : Elems(f)[i].t # "dict"
       \/ \E i \in DOMAIN Elems(f) :
            /\ Elems(f)[i].t = "dict"
            /\ K_raw_text \in Keys(Elems(f)[i])
            /\ ~({K_deadline, K_priority} \subseteq Keys(Elems(f)[i]))

\* C1: whenever the file exists and is malformed, load_tasks returns the empty
\* sequence and raises nothing, so that startup reaches the menu.
C1_FailsSoft ==
    (pc # "start" /\ Malformed(file)) => (pc = "menu" /\ tasks = <<>>)

\* ---- C2 (under Spec)
\* C2: at the menu (after the startup load and after every completed
\* operation) load_tasks on the backing file returns exactly the store.
C2_FileMatchesStore ==
    pc = "menu" => load_tasks(file) = [exc |-> "none", tasks |-> tasks]

\* an add completed on a store loaded from a legacy record: the file was
\* rewritten and holds two records
C2_Witness ==
    /\ pc = "menu"
    /\ out = "Task added."
    /\ Len(tasks) = 2
    /\ tasks[1].raw_text = Str(<<"x">>)

\* ---- C3 (under SpecStore)
\* C3: save_tasks(T) followed by load_tasks() returns T, for every sequence T of
\* records whose three fields are strs.
C3_RoundTrip ==
    pc = "loaded" => out = [exc |-> "none", tasks |-> tasks]

\* two different records were saved and loaded
C3_Witness ==
    /\ pc = "loaded"
    /\ Len(tasks) = 2
    /\ tasks[1] # tasks[2]
    /\ out.tasks = tasks

\* ---- C4 (under Spec)
\* the index typed is not a number, or is outside 1..length
BadIndex(line, ts) ==
    \/ ~int(line).ok
    \/ int(line).n < 1
    \/ int(line).n > Len(ts)

\* C4: an add of empty or whitespace-only text, and a delete with a bad index
\* (any delete on an empty store included), leave the store and the file as
\* they were, and the menu loop goes on.
C4_InputErrorsHarmless ==
    [][(/\ pc = "menu"
        /\ \/ op' = "1" /\ strip(inp') = <<>>
           \/ op' = "3" /\ BadIndex(inp', tasks))
       => (tasks' = tasks /\ file' = file /\ pc' = "menu")]_vars

\* ---- C5 (under Spec)
\* C5: a completed add appends the record parsed from the stripped line and
\* changes nothing else; a completed delete with index k removes the k-th record
\* and the later ones move down by one; nothing else changes the store of a
\* running program.
C5_OneElementChanges ==
    [][(pc = "menu" /\ pc' = "menu") =>
        /\ (op' = "1" /\ out' = "Task added.") =>
              /\ Len(tasks') = Len(tasks) + 1
              /\ SubSeq(tasks', 1, Len(tasks)) = tasks
              /\ tasks'[Len(tasks')].raw_text = Str(strip(inp'))
              /\ tasks'[Len(tasks')].deadline = Str(extract_deadline(strip(inp')))
              /\ tasks'[Len(tasks')].priority = Str(extract_priority(strip(inp')))
        /\ (op' = "3" /\ out' = "Deleted") =>
              /\ int(inp').ok
              /\ int(inp').n \in 1..Len(tasks)
              /\ Len(tasks') = Len(tasks) - 1
              /\ \A i \in 1..(int(inp').n - 1) : tasks'[i] = tasks[i]
              /\ \A i \in int(inp').n..Len(tasks') : tasks'[i] = tasks[i + 1]
        /\ (tasks' # tasks) => (out' \in {"Task added.", "Deleted"})]_vars

\* the first of two different records was deleted and the second moved down
C5_Witness ==
    /\ pc = "menu"
    /\ op = "3"
    /\ out = "Deleted"
    /\ int(inp).ok /\ int(inp).n = 1
    /\ tasks = <<R_banana>>
    /\ file = save_tasks(<<R_banana>>)

\* ---- C6 (under SpecExtract)
\* C6: on the lowercased text, extract_priority is "low" when a low-priority
\* phrase occurs, even beside high keywords; otherwise "high" when a high
\* keyword occurs, even beside medium keywords; otherwise "medium".
C6_PriorityPrecedence ==
    pc = "priority" =>
        LET t == lower(inp)
            low == \E p \in { <<"n","o","t"," ","u","r","g","e","n","t">>, <<"n","o"," ","u","r","g","e","n","c","y">>, <<"l","o","w"," ","p","r","i","o","r","i","t","y">>,
                              <<"n","o","t"," ","i","m","p","o","r","t","a","n","t">> } : Contains(p, t)
            hi == \E p \in { <<"u","r","g","e","n","t">>, <<"i","m","p","o","r","t","a","n","t">>, <<"a","s","a","p">>, <<"i","m","m","e","d","i","a","t","e","l","y">>,
                             <<"c","r","i","t","i","c","a","l">>, <<"t","o","d","a","y">> } : Contains(p, t)
        IN  /\ low => out = <<"l","o","w">>
            /\ (~low /\ hi) => out = <<"h","i","g","h">>
            /\ (~low /\ ~hi) => out = <<"m","e","d","i","u","m">>
            /\ out \in { <<"l","o","w">>, <<"m","e","d","i","u","m">>, <<"h","i","g","h">> }

\* a text with a high keyword and a low-priority phrase was classified low
C6_Witness ==
    /\ pc = "priority"
    /\ Contains(<<"u","r","g","e","n","t">>, lower(inp))
    /\ Contains(<<"n","o","t"," ","i","m","p","o","r","t","a","n","t">>, lower(inp))
    /\ out = <<"l","o","w">>

\* ---- C7 (under SpecExtract)
\* the patterns that match somewhere in the lowercased text
Matching(t) == {k \in DOMAIN DEADLINE_PATTERNS : Search(DEADLINE_PATTERNS[k], t) # NoMatch}

RecordList(f) ==
    /\ f.exists
    /\ Decodes(f)
    /\ Parsed(f).t = "list"
    /\ \A i \in DOMAIN Elems(f) : Elems(f)[i].t = "dict"

IsCurrent(e) == K_raw_text \in Keys(e)

IsLegacy(e) == K_raw_text \notin Keys(e) /\ K_description \in Keys(e)

\* the records of either schema, in file order
Kept(f) == SelectSeq(Elems(f), LAMBDA e : IsCurrent(e) \/ IsLegacy(e))

\* the result holds one task per record of either schema, in file order, each
\* built from its record
OnePerRecord(f, ts) ==
    /\ Len(ts) = Len(Kept(f))
    /\ \A i \in DOMAIN Kept(f) :
        LET e == Kept(f)[i]
        IN  /\ IsLegacy(e) =>
                 /\ ts[i].raw_text = Get(e, K_description)
                 /\ ts[i].deadline =
                      (IF K_deadline \in Keys(e) THEN Get(e, K_deadline)
                       ELSE Str(<<"u","n","s","p","e","c","i","f","i","e","d">>))
                 /\ ts[i].priority =
                      (IF K_priority \in Keys(e) THEN Get(e, K_priority)
                       ELSE Str(<<"m","e","d","i","u","m">>))
            /\ (IsCurrent(e) /\ {K_deadline, K_priority} \subseteq Keys(e)) =>
                 /\ ts[i].raw_text = Get(e, K_raw_text)
                 /\ ts[i].deadline = Get(e, K_deadline)
                 /\ ts[i].priority = Get(e, K_priority)

\* C8 as claimed: for a file that is a list of records, the result holds, in
\* file order, one task per record with raw_text, one per record with
\* description and no raw_text, and nothing for any other record.
C8_PerRecordAsClaimed ==
    (pc # "start" /\ RecordList(file)) => (pc = "menu" /\ OnePerRecord(file, tasks))

\* every record that has raw_text has exactly the fields raw_text, deadline, priority
CurrentRecordsExact(f) ==
    \A i \in DOMAIN Elems(f) :
        IsCurrent(Elems(f)[i]) => Keys(Elems(f)[i]) = {K_raw_text, K_deadline, K_priority}

\* C8 as amended: for a file that is a list of records, load_tasks raises
\* nothing; when every record that has raw_text has exactly the fields raw_text,
\* deadline and priority, the result holds one task per record of either schema
\* as claimed (records of neither schema are skipped and cost no other record);
\* otherwise the result is empty.
C8_PerRecord ==
    (pc # "start" /\ RecordList(file)) =>
        /\ pc = "menu"
        /\ IF CurrentRecordsExact(file) THEN OnePerRecord(file, tasks) ELSE tasks = <<>>

\* a record of neither schema was skipped and the legacy record after it loaded
C8_Witness ==
    /\ pc = "menu"
    /\ file = FileOf(DumpValue(List(<<E_neither, E_legacy>>)))
    /\ tasks = <<Task(Str(<<"x">>), Str(<<"u","n","s","p","e","c","i","f","i","e","d">>), Str(<<"h","i","g","h">>))>>

\* ---- C9 (under Spec)
\* C9: every record of the store has a priority that is one of "low",
\* "medium", "high".
C9_PriorityLevels ==
    \A i \in DOMAIN tasks :
        tasks[i].priority \in {Str(<<"l","o","w">>), Str(<<"m","e","d","i","u","m">>), Str(<<"h","i","g","h">>)}

\* ---- C10 (under Spec)
\* C10: when a save fails or the process stops during the write, the file holds
\* the complete old content or the complete new content.
C10_AtomicSave ==
    [][(pc = "menu" /\ pc' = "crashed" /\ out' = "OSError")
       => (file' = file \/ file' = save_tasks(tasks'))]_vars

====
